---- MODULE Spec2Model ----
(***************************************************************************)
(* The poll loop of homework.py: main() polls the review API, validates    *)
(* the payload, formats the first submission, notifies through Telegram    *)
(* when the candidate message differs from the last delivered one, and     *)
(* sleeps RETRY_TIME seconds.                                              *)
(*                                                                         *)
(* Python values are modelled as follows.                                  *)
(*   - None is the string NoneVal; every message is a string.  The Russian *)
(*     literals of the source are glossed in English, one distinct gloss   *)
(*     per distinct literal.                                               *)
(*   - A JSON scalar under 'current_date' is a record [t, v]: t is its     *)
(*     JSON type ("int", "str", "null") and v the number it spells.        *)
(*   - A decoded payload is a record: is_dict, has_homeworks,              *)
(*     homeworks_is_list, homeworks, has_current_date, current_date.       *)
(*   - A call that may raise returns [ok, value, exc, msg]: exc is the     *)
(*     exception class and msg is str(error).                              *)
(***************************************************************************)
EXTENDS Integers, Sequences, FiniteSets, TLC

VARIABLES
    PRACTICUM_TOKEN,    \* os.getenv('PRACTICUM_TOKEN')
    TELEGRAM_TOKEN,     \* os.getenv('TELEGRAM_TOKEN')
    TELEGRAM_CHAT_ID,   \* os.getenv('TELEGRAM_CHAT_ID')
    pc,                 \* position of main()
    current_timestamp,  \* main(): the cursor sent as from_date
    last_message,       \* main(): the last delivered message
    new_message,        \* main(): the candidate message
    homework_status,    \* main(): the payload get_api_answer returned
    homeworks,          \* main(): the list check_response returned
    exit_status,        \* <<>> while running, <<n>> once the process has exited
    critical_log,       \* variables named by logger.critical lines
    api_called,         \* requests.get has been called in this run
    notifier_called,    \* bot.sendMessage has been called in this run
    slept,              \* argument of the most recent time.sleep
    iter_start,         \* cursor and last_message when the iteration began
    attempt,            \* how the try statement of this iteration ended
    call,               \* the send_message call of this iteration
    prev,               \* attempt, candidate and call of the previous iteration
    scen,               \* progress through the scenario of three responses
    flap,               \* progress through reviewing, approved, each delivered
    last_delivered,     \* message of the latest send_message call that returned True
    events              \* calls and cursor assignments of one iteration, in order

vars == <<PRACTICUM_TOKEN, TELEGRAM_TOKEN, TELEGRAM_CHAT_ID, pc,
          current_timestamp, last_message, new_message, homework_status,
          homeworks, exit_status, critical_log, api_called, notifier_called,
          slept, iter_start, attempt, call, prev, scen, flap,
          last_delivered, events>>

-----------------------------------------------------------------------------
(* Bounds of the inputs. *)

\* Server cursor values are 1000 * d for d in 1..MaxDate.
MaxDate == 2

\* Longest 'homeworks' list of a payload.
MaxHomeworks == 2

-----------------------------------------------------------------------------
(* Constants of homework.py. *)

RETRY_TIME == 600

NoneVal == "None"

\* A slip: two statuses share one verdict text.
HOMEWORK_STATUSES_SameVerdict ==
    [approved |-> "Work checked.",
     reviewing |-> "Work taken for review by the reviewer.",
     rejected |-> "Work checked."]

HOMEWORK_STATUSES ==
    [approved |-> "Work checked: the reviewer liked everything. Hooray!",
     reviewing |-> "Work taken for review by the reviewer.",
     rejected |-> "Work checked: the reviewer has remarks."]

\* HTTPStatus.UNAUTHORIZED and HTTPStatus.BAD_REQUEST
UNAUTHORIZED == 401
BAD_REQUEST == 400

\* int(time.time() - 30 days): some integer the server never returns
StartTimestamp == [t |-> "int", v |-> 0]

-----------------------------------------------------------------------------
(* Results of calls that may raise. *)

Ok(v) == [ok |-> TRUE, value |-> v, exc |-> "", msg |-> ""]

Raise(cls, m) == [ok |-> FALSE, value |-> NoneVal, exc |-> cls, msg |-> m]

\* str(KeyError(m)) is repr(m): the message in quotes.
StrKeyError(m) == "'" \o m \o "'"

-----------------------------------------------------------------------------
(* Inputs: environment, transport outcomes, payloads, delivery outcomes. *)

\* A variable of the environment is unset (None), empty or set.
EnvValues == {NoneVal, "", "token"}

Dates == {[t |-> "int", v |-> 1000 * d] : d \in 1..MaxDate}
         \cup {[t |-> "str", v |-> 1000]}

Submissions ==
    {[homework_name |-> "hw1", status |-> s] :
        s \in {"approved", "reviewing", "rejected", "unknown", NoneVal}}
    \cup {[homework_name |-> NoneVal, status |-> "reviewing"]}

\* k older submissions, already reviewed, behind the most recent one.
Older(k) == [i \in 1..k |-> [homework_name |-> "hw0", status |-> "rejected"]]

\* The empty list, and every submission as the first of 1..MaxHomeworks.
HomeworkLists ==
    {<<>>} \cup {<<s>> \o Older(k) : s \in Submissions, k \in 0..(MaxHomeworks - 1)}

\* A payload that is a JSON object, with the keys it has.
DictPayload(hasH, isList, hs, hasD, d) ==
    [is_dict |-> TRUE, has_homeworks |-> hasH, homeworks_is_list |-> isList,
     homeworks |-> hs, has_current_date |-> hasD, current_date |-> d]

NotADict == [is_dict |-> FALSE, has_homeworks |-> FALSE, homeworks_is_list |-> FALSE,
             homeworks |-> <<>>, has_current_date |-> FALSE,
             current_date |-> [t |-> "null", v |-> 0]]

Payloads ==
    {NotADict}
    \cup {DictPayload(TRUE, TRUE, hs, TRUE, d) : hs \in HomeworkLists, d \in Dates}
    \cup {DictPayload(FALSE, FALSE, <<>>, TRUE, [t |-> "int", v |-> 1000]),
          DictPayload(TRUE, TRUE, <<>>, FALSE, [t |-> "null", v |-> 0]),
          DictPayload(TRUE, FALSE, <<>>, TRUE, [t |-> "int", v |-> 1000])}

\* What requests.get and response.json() can do.  kind is "response" or the
\* class of the exception requests.get raises; decode is "json" or the class
\* of the exception response.json() raises on a body that is not JSON.
TransportErrors == {"ConnectionError", "ConnectTimeout", "ReadTimeout", "TooManyRedirects"}

ApiOutcomes ==
    {[kind |-> k, status_code |-> 0, decode |-> "json", payload |-> NotADict] :
        k \in TransportErrors}
    \cup {[kind |-> "response", status_code |-> c, decode |-> "json", payload |-> NotADict] :
            c \in {UNAUTHORIZED, BAD_REQUEST, 500}}
    \cup {[kind |-> "response", status_code |-> 200, decode |-> x, payload |-> NotADict] :
            x \in {"JSONDecodeError", "ValueError"}}
    \cup {[kind |-> "response", status_code |-> 304, decode |-> "JSONDecodeError",
           payload |-> NotADict]}
    \cup {[kind |-> "response", status_code |-> 200, decode |-> "json", payload |-> p] :
            p \in Payloads}

\* What bot.sendMessage can do: return, raise telegram.TelegramError, or
\* raise an exception that is no TelegramError.
DeliveryOutcomes == {"sent", "TelegramError", "OtherError"}

-----------------------------------------------------------------------------
(* exeptions.py and requests.exceptions: the classes an except clause of     *)
(* get_api_answer catches.                                                   *)

Ancestors(cls) ==
    CASE cls = "HTTPError" -> {"HTTPError", "RequestException", "Exception"}
      [] cls = "ConnectionError" -> {"ConnectionError", "RequestException", "Exception"}
      [] cls = "ConnectTimeout" ->
            {"ConnectTimeout", "ConnectionError", "Timeout", "RequestException", "Exception"}
      [] cls = "ReadTimeout" -> {"ReadTimeout", "Timeout", "RequestException", "Exception"}
      [] cls = "TooManyRedirects" -> {"TooManyRedirects", "RequestException", "Exception"}
      [] cls = "JSONDecodeError" -> {"JSONDecodeError", "RequestException", "Exception"}
      [] OTHER -> {cls, "Exception"}

IsInstance(cls, base) == base \in Ancestors(cls)

\* response.raise_for_status(): HTTPError for a 4xx or 5xx status.
RaisesForStatus(status_code) == status_code >= 400 /\ status_code < 600

\* The try body of get_api_answer: the class it raises, or "" when it returns.
RequestRaises(o) ==
    IF o.kind # "response" THEN o.kind
    ELSE IF RaisesForStatus(o.status_code) THEN "HTTPError"
    ELSE IF o.decode # "json" THEN o.decode
    ELSE ""

\* A slip: no branch for 401, every HTTPError becomes APIRequestError.
get_api_answer_No401(timestamp, o) ==
    LET raised == RequestRaises(o)
    IN  IF raised = "" THEN Ok(o.payload)
        ELSE IF IsInstance(raised, "HTTPError") THEN
            IF o.status_code = BAD_REQUEST
                THEN Raise("APIIncorrectParametersError",
                           "Incorrect format of the parameter from_date")
            ELSE Raise("APIRequestError", "HTTPError " \o ToString(o.status_code))
        ELSE IF IsInstance(raised, "ConnectionError")
            THEN Raise("ConnectionError", "Connection problems occurred")
        ELSE IF IsInstance(raised, "Timeout")
            THEN Raise("APITimeoutError", "Timed out waiting for the server response")
        ELSE IF IsInstance(raised, "RequestException")
            THEN Raise("APIRequestError", "Error requesting the endpoint: ENDPOINT")
        ELSE Raise("APIRequestError", "Problems accessing the API: " \o raised)

get_api_answer(timestamp, o) ==
    LET raised == RequestRaises(o)
    IN  IF raised = "" THEN Ok(o.payload)
        ELSE IF IsInstance(raised, "HTTPError") THEN
            IF o.status_code = UNAUTHORIZED
                THEN Raise("APIUnauthorized", "Incorrect credentials supplied")
            ELSE IF o.status_code = BAD_REQUEST
                THEN Raise("APIIncorrectParametersError",
                           "Incorrect format of the parameter from_date")
            ELSE Raise("APIRequestError", "HTTPError " \o ToString(o.status_code))
        ELSE IF IsInstance(raised, "ConnectionError")
            THEN Raise("ConnectionError", "Connection problems occurred")
        ELSE IF IsInstance(raised, "Timeout")
            THEN Raise("APITimeoutError", "Timed out waiting for the server response")
        ELSE IF IsInstance(raised, "RequestException")
            THEN Raise("APIRequestError", "Error requesting the endpoint: ENDPOINT")
        ELSE Raise("APIRequestError", "Problems accessing the API: " \o raised)

check_response(response) ==
    IF ~response.is_dict
        THEN Raise("TypeError", "API response is not a dict")
    ELSE IF ~response.has_homeworks
        THEN Raise("KeyError", StrKeyError("Key homeworks is missing in the API response"))
    ELSE IF ~response.has_current_date
        THEN Raise("KeyError", StrKeyError("Key current_date is missing in the API response"))
    ELSE IF ~response.homeworks_is_list
        THEN Raise("TypeError", "Value under the key homeworks is not a list")
    ELSE Ok(response.homeworks)

parse_status(homework) ==
    LET homework_name == homework.homework_name
        status == homework.status
    IN  IF homework_name = NoneVal
            THEN Raise("KeyError", StrKeyError("Key homework_name is missing"))
        ELSE IF status = NoneVal
            THEN Raise("KeyError", StrKeyError("Key status is missing"))
        ELSE IF status \notin DOMAIN HOMEWORK_STATUSES
            THEN Raise("ValueError", "Unknown homework status: " \o status)
        ELSE Ok("Review status of the work \"" \o homework_name \o "\" changed. "
                \o HOMEWORK_STATUSES[status])

\* `not TOKEN`: None and the empty string are falsy.
Falsy(v) == v = NoneVal \/ v = ""

\* The names check_tokens logs at critical level.
MissingTokens(practicum, telegram, chat) ==
    (IF Falsy(practicum) THEN {"PRACTICUM_TOKEN"} ELSE {})
    \cup (IF Falsy(telegram) THEN {"TELEGRAM_TOKEN"} ELSE {})
    \cup (IF Falsy(chat) THEN {"TELEGRAM_CHAT_ID"} ELSE {})

\* A slip: no check of TELEGRAM_CHAT_ID.
check_tokens_NoChatId(practicum, telegram, chat) ==
    ~Falsy(practicum) /\ ~Falsy(telegram)

\* is_tokens stays True only when none of the three is falsy.
check_tokens(practicum, telegram, chat) ==
    ~Falsy(practicum) /\ ~Falsy(telegram) /\ ~Falsy(chat)

\* sys.exit() with no argument: SystemExit(None), exit status 0.
SysExitStatus == 0

\* An exception that leaves main(): the interpreter exits with status 1.
UncaughtExitStatus == 1

\* A slip: no except clause, TelegramError leaves send_message too.
send_message_NoExcept(delivery) ==
    IF delivery = "sent" THEN Ok(TRUE) ELSE Raise(delivery, delivery)

\* send_message: True when bot.sendMessage returns, False on TelegramError.
\* Any other exception leaves send_message.
send_message(delivery) ==
    IF delivery = "sent" THEN Ok(TRUE)
    ELSE IF delivery = "TelegramError" THEN Ok(FALSE)
    ELSE Raise(delivery, delivery)

\* A slip: the oldest submission of the list instead of the most recent.
FirstSubmission_Last(hs) == hs[Len(hs)]

\* homeworks[0]
FirstSubmission(hs) == hs[1]

\* A slip: last_message = new_message whatever send_message returned.
LastAfterSend_Unconditional(last, new, delivered) == new

\* A slip: last_message is set by the first delivery only.
LastAfterSend_FirstOnly(last, new, delivered) ==
    IF delivered /\ last = NoneVal THEN new ELSE last

\* if ... and send_message(bot, new_message): last_message = new_message
LastAfterSend(last, new, delivered) == IF delivered THEN new ELSE last

\* A slip: the finally clause sends without comparing with last_message.
ShouldSend_NoDedup(last, new) == TRUE

\* The condition of the finally clause up to the call: last_message != new_message.
ShouldSend(last, new) == last # new

-----------------------------------------------------------------------------
(* History of the run, kept beside the program's variables. *)

NoAttempt == [result |-> "pending", exc |-> "", msg |-> "", status_code |-> 0,
              kind |-> "", decode |-> "", requests |-> 0,
              from_date |-> StartTimestamp]

NoCall == [n |-> 0, message |-> NoneVal, result |-> ""]

NoPrev == [result |-> "none", cand |-> NoneVal, n |-> 0, call_result |-> "",
           from_date |-> StartTimestamp]

\* requests.get was called with from_date = current_timestamp and did o.
Requested(o) ==
    [attempt EXCEPT !.from_date = current_timestamp,
                    !.status_code = o.status_code,
                    !.kind = o.kind,
                    !.decode = o.decode,
                    !.requests = attempt.requests + 1]

\* The try statement ended in its except clause with this error.
Failed(kind, r) == [attempt EXCEPT !.result = kind, !.exc = r.exc, !.msg = r.msg]

\* The scenario: hw1 reviewing at 1000, the same again, hw1 approved at 2000.
ScenarioPayload(k) ==
    DictPayload(TRUE, TRUE,
                <<[homework_name |-> "hw1",
                   status |-> IF k = 3 THEN "approved" ELSE "reviewing"]>>,
                TRUE, [t |-> "int", v |-> IF k = 3 THEN 2000 ELSE 1000])

\* This iteration was step k of the scenario: that response, delivery succeeding.
ScenarioStep(k) ==
    /\ attempt.result \in {"formatted", "empty", "formatter_error", "validator_error"}
    /\ homework_status = ScenarioPayload(k)
    /\ call.result # "TelegramError"

\* The message for submission hw1 in this status.
StatusMessage(status) ==
    parse_status([homework_name |-> "hw1", status |-> status]).value

\* This iteration formatted hw1 in this status and delivered the message.
Delivered(status) ==
    /\ attempt.result = "formatted"
    /\ new_message = StatusMessage(status)
    /\ call.n = 1
    /\ call.result = "sent"

-----------------------------------------------------------------------------
(* main() *)

Init ==
    /\ PRACTICUM_TOKEN \in EnvValues
    /\ TELEGRAM_TOKEN \in EnvValues
    /\ TELEGRAM_CHAT_ID \in EnvValues
    /\ pc = "start"
    /\ current_timestamp = StartTimestamp
    /\ last_message = NoneVal
    /\ new_message = NoneVal
    /\ homework_status = NoneVal
    /\ homeworks = <<>>
    /\ exit_status = <<>>
    /\ critical_log = {}
    /\ api_called = FALSE
    /\ notifier_called = FALSE
    /\ slept = 0
    /\ iter_start = [cursor |-> StartTimestamp, last |-> NoneVal]
    /\ attempt = NoAttempt
    /\ call = NoCall
    /\ prev = NoPrev
    /\ scen = 0
    /\ flap = 0
    /\ last_delivered = NoneVal
    /\ events = <<>>

\* if not check_tokens(): sys.exit();  then the initial assignments.
Startup ==
    /\ pc = "start"
    /\ critical_log' = MissingTokens(PRACTICUM_TOKEN, TELEGRAM_TOKEN, TELEGRAM_CHAT_ID)
    /\ IF check_tokens(PRACTICUM_TOKEN, TELEGRAM_TOKEN, TELEGRAM_CHAT_ID)
         THEN /\ pc' = "fetch"
              /\ exit_status' = exit_status
         ELSE /\ pc' = "exited"
              /\ exit_status' = <<SysExitStatus>>
    /\ current_timestamp' = StartTimestamp
    /\ last_message' = NoneVal
    /\ new_message' = NoneVal
    /\ homework_status' = NoneVal
    /\ UNCHANGED <<PRACTICUM_TOKEN, TELEGRAM_TOKEN, TELEGRAM_CHAT_ID, homeworks,
                   api_called, notifier_called, slept, iter_start, attempt, call,
                   prev, scen,
                   flap, last_delivered, events>>

\* homework_status = get_api_answer(current_timestamp), and the except clause
\* of main() when it raises.
Fetch ==
    /\ pc = "fetch"
    /\ \E o \in ApiOutcomes :
         LET r == get_api_answer(current_timestamp, o)
         IN  IF r.ok
               THEN /\ homework_status' = r.value
                    /\ new_message' = new_message
                    /\ attempt' = Requested(o)
                    /\ pc' = "validate"
               ELSE /\ homework_status' = homework_status
                    /\ new_message' = r.msg
                    /\ attempt' = [Requested(o) EXCEPT !.result = "api_error",
                                                       !.exc = r.exc,
                                                       !.msg = r.msg]
                    /\ pc' = "notify"
    /\ api_called' = TRUE
    /\ events' = <<"api">>
    /\ UNCHANGED <<PRACTICUM_TOKEN, TELEGRAM_TOKEN, TELEGRAM_CHAT_ID,
                   current_timestamp, last_message, homeworks, exit_status,
                   critical_log, notifier_called, slept, iter_start, call, prev, scen,
                   flap, last_delivered>>

\* A slip: an empty list clears the candidate.
Validate_ClearsCandidate ==
    /\ pc = "validate"
    /\ LET r == check_response(homework_status)
       IN  IF r.ok
             THEN /\ homeworks' = r.value
                  /\ new_message' = (IF r.value # <<>> THEN new_message ELSE NoneVal)
                  /\ IF r.value # <<>>
                       THEN /\ pc' = "format"
                            /\ attempt' = attempt
                       ELSE /\ pc' = "advance"
                            /\ attempt' = [attempt EXCEPT !.result = "empty"]
             ELSE /\ homeworks' = homeworks
                  /\ new_message' = r.msg
                  /\ attempt' = Failed("validator_error", r)
                  /\ pc' = "notify"
    /\ UNCHANGED <<PRACTICUM_TOKEN, TELEGRAM_TOKEN, TELEGRAM_CHAT_ID,
                   current_timestamp, last_message, homework_status, exit_status,
                   critical_log, api_called, notifier_called, slept, iter_start,
                   call, prev, scen,
                   flap, last_delivered, events>>

\* homeworks = check_response(homework_status); if homeworks: ... else: debug.
Validate ==
    /\ pc = "validate"
    /\ LET r == check_response(homework_status)
       IN  IF r.ok
             THEN /\ homeworks' = r.value
                  /\ new_message' = new_message
                  /\ IF r.value # <<>>
                       THEN /\ pc' = "format"
                            /\ attempt' = attempt
                       ELSE /\ pc' = "advance"
                            /\ attempt' = [attempt EXCEPT !.result = "empty"]
             ELSE /\ homeworks' = homeworks
                  /\ new_message' = r.msg
                  /\ attempt' = Failed("validator_error", r)
                  /\ pc' = "notify"
    /\ UNCHANGED <<PRACTICUM_TOKEN, TELEGRAM_TOKEN, TELEGRAM_CHAT_ID,
                   current_timestamp, last_message, homework_status, exit_status,
                   critical_log, api_called, notifier_called, slept, iter_start,
                   call, prev, scen,
                   flap, last_delivered, events>>

\* A slip: the cursor is assigned after the except clause too.
Format_AdvancesOnError ==
    /\ pc = "format"
    /\ LET r == parse_status(FirstSubmission(homeworks))
       IN  IF r.ok
             THEN /\ new_message' = r.value
                  /\ attempt' = [attempt EXCEPT !.result = "formatted"]
                  /\ pc' = "advance"
             ELSE /\ new_message' = r.msg
                  /\ attempt' = Failed("formatter_error", r)
                  /\ pc' = "advance"
    /\ UNCHANGED <<PRACTICUM_TOKEN, TELEGRAM_TOKEN, TELEGRAM_CHAT_ID,
                   current_timestamp, last_message, homework_status, homeworks,
                   exit_status, critical_log, api_called, notifier_called, slept,
                   iter_start, call, prev, scen,
                   flap, last_delivered, events>>

\* new_message = parse_status(homeworks[0])
Format ==
    /\ pc = "format"
    /\ LET r == parse_status(FirstSubmission(homeworks))
       IN  IF r.ok
             THEN /\ new_message' = r.value
                  /\ attempt' = [attempt EXCEPT !.result = "formatted"]
                  /\ pc' = "advance"
             ELSE /\ new_message' = r.msg
                  /\ attempt' = Failed("formatter_error", r)
                  /\ pc' = "notify"
    /\ UNCHANGED <<PRACTICUM_TOKEN, TELEGRAM_TOKEN, TELEGRAM_CHAT_ID,
                   current_timestamp, last_message, homework_status, homeworks,
                   exit_status, critical_log, api_called, notifier_called, slept,
                   iter_start, call, prev, scen,
                   flap, last_delivered, events>>

\* else: current_timestamp = homework_status.get('current_date')
Advance ==
    /\ pc = "advance"
    /\ current_timestamp' = homework_status.current_date
    /\ events' = Append(events, "cursor")
    /\ pc' = "notify"
    /\ UNCHANGED <<PRACTICUM_TOKEN, TELEGRAM_TOKEN, TELEGRAM_CHAT_ID, last_message,
                   new_message, homework_status, homeworks, exit_status,
                   critical_log, api_called, notifier_called, slept, iter_start,
                   attempt, call, prev, scen,
                   flap, last_delivered>>

\* finally: if last_message != new_message and send_message(bot, new_message):
\*              last_message = new_message
Notify ==
    /\ pc = "notify"
    /\ IF ShouldSend(last_message, new_message)
         THEN \E delivery \in DeliveryOutcomes :
                LET r == send_message(delivery)
                IN  /\ notifier_called' = TRUE
                    /\ events' = Append(events, "notify")
                    /\ last_delivered' = IF r.ok /\ r.value THEN new_message
                                         ELSE last_delivered
                    /\ call' = [n |-> call.n + 1, message |-> new_message,
                                result |-> delivery]
                    /\ IF r.ok
                         THEN /\ last_message' =
                                    LastAfterSend(last_message, new_message, r.value)
                              /\ pc' = "sleep"
                              /\ exit_status' = exit_status
                         ELSE /\ last_message' = last_message
                              /\ pc' = "crashed"
                              /\ exit_status' = <<UncaughtExitStatus>>
         ELSE /\ pc' = "sleep"
              /\ UNCHANGED <<last_message, notifier_called, call, exit_status,
                             last_delivered, events>>
    /\ UNCHANGED <<PRACTICUM_TOKEN, TELEGRAM_TOKEN, TELEGRAM_CHAT_ID,
                   current_timestamp, new_message, homework_status, homeworks,
                   critical_log, api_called, slept, iter_start, attempt, prev, scen,
                   flap>>

\* time.sleep(RETRY_TIME), then the next iteration begins.
Sleep ==
    /\ pc = "sleep"
    /\ slept' = RETRY_TIME
    /\ events' = Append(events, "sleep")
    /\ pc' = "fetch"
    /\ prev' = [result |-> attempt.result, cand |-> new_message, n |-> call.n,
                call_result |-> call.result, from_date |-> attempt.from_date]
    /\ iter_start' = [cursor |-> current_timestamp, last |-> last_message]
    /\ attempt' = NoAttempt
    /\ call' = NoCall
    /\ scen' = IF scen \in 0..2 /\ ScenarioStep(scen + 1) THEN scen + 1 ELSE -1
    /\ flap' = IF Delivered("reviewing") THEN 1
               ELSE IF flap = 1 /\ Delivered("approved") THEN 2
               ELSE 0
    /\ UNCHANGED <<PRACTICUM_TOKEN, TELEGRAM_TOKEN, TELEGRAM_CHAT_ID,
                   current_timestamp, last_message, new_message, homework_status,
                   homeworks, exit_status, critical_log, api_called, notifier_called,
                   last_delivered>>

Next ==
    \/ Startup
    \/ Fetch
    \/ Validate
    \/ Format
    \/ Advance
    \/ Notify
    \/ Sleep

Spec == Init /\ [][Next]_vars

-----------------------------------------------------------------------------
(* Properties of the poll loop. *)

\* The iteration has passed its finally clause up to the sleep, or died there.
IterationEnded == pc \in {"sleep", "crashed"}

\* The try statement of this iteration ended in an error of the API client
\* or of the validator.
FetchFailed(result) == result \in {"api_error", "validator_error"}

\* A response as section 4.2 of the design validates it: a mapping with a list
\* under 'homeworks' and an integer under 'current_date'.
ValidatedResponse(r) ==
    /\ r.is_dict
    /\ r.has_homeworks /\ r.homeworks_is_list
    /\ r.has_current_date /\ r.current_date.t = "int"

\* C1: the cursor changes only in the else clause, only to the current_date of
\* the response just fetched, and only when that response is a mapping with a
\* list under 'homeworks' and an integer under 'current_date'.
C1_CursorOnlyFromValidated ==
    [][current_timestamp' # current_timestamp =>
          /\ pc = "advance"
          /\ ValidatedResponse(homework_status)
          /\ current_timestamp' = homework_status.current_date]_vars

\* Two consecutive iterations produced the same formatted candidate.
SameCandidateTwice ==
    /\ IterationEnded
    /\ prev.result = "formatted"
    /\ attempt.result = "formatted"
    /\ prev.cand = new_message

\* C2 as stated: two consecutive iterations with the same formatted candidate
\* make exactly one Notifier call, in the first of them.
C2_ExactlyOneCall == SameCandidateTwice => (prev.n = 1 /\ call.n = 0)

\* C2 amended: when two consecutive iterations produce the same formatted
\* candidate and the first one's Notifier call delivered it, that call is the
\* only one: the second iteration makes none, the candidate being equal to
\* last_message.
C2_SuppressedAfterDelivery ==
    (SameCandidateTwice /\ prev.n = 1 /\ prev.call_result = "sent") =>
        (call.n = 0 /\ pc = "sleep" /\ last_message = new_message)

C2_Witness ==
    /\ SameCandidateTwice
    /\ prev.n = 1 /\ prev.call_result = "sent"
    /\ call.n = 0
    /\ pc = "sleep"

\* C3: an iteration whose validated response has an empty list makes no
\* Notifier call and leaves the cursor and last_message as they were.
C3_EmptyListNoEffect ==
    (IterationEnded /\ attempt.result = "empty") =>
        /\ call.n = 0
        /\ current_timestamp = iter_start.cursor
        /\ last_message = iter_start.last

\* The Notifier call of the previous iteration failed with TelegramError.
PrevDeliveryFailed == prev.n = 1 /\ prev.call_result = "TelegramError"

\* A failed delivery leaves last_message as it was when the iteration began.
FailedDeliveryKeepsLast ==
    call.result = "TelegramError" => last_message = iter_start.last

\* C4 as stated: a failed delivery leaves last_message unchanged and the same
\* message is passed to the Notifier in the following iteration.
C4_FailedDeliveryRetriedNext ==
    /\ FailedDeliveryKeepsLast
    /\ (IterationEnded /\ PrevDeliveryFailed) =>
          (call.n = 1 /\ call.message = prev.cand)

\* C4 amended: a failed delivery leaves last_message unchanged, and the same
\* message is passed to the Notifier in the following iteration unless that
\* iteration produces a different candidate.
C4_FailedDeliveryRetriedUnlessReplaced ==
    /\ FailedDeliveryKeepsLast
    /\ (IterationEnded /\ PrevDeliveryFailed /\ new_message = prev.cand) =>
          (call.n = 1 /\ call.message = prev.cand)

C4_Witness ==
    /\ IterationEnded
    /\ PrevDeliveryFailed
    /\ new_message = prev.cand
    /\ call.n = 1
    /\ call.message = prev.cand
    /\ last_message # prev.cand

\* str(APIUnauthorized(...)) as get_api_answer raises it.
AuthorizationFailure == "Incorrect credentials supplied"

\* C5: after a failure of the API client or of the validator the cursor is the
\* one the request was sent with, the error's text is the candidate, it goes to
\* the Notifier exactly when it differs from last_message, and the next request
\* is sent with the same cursor; an HTTP 401 met with a different last_message
\* gives one Notifier call with the authorization-failure message.
C5_FailureKeepsCursor ==
    /\ (IterationEnded /\ FetchFailed(attempt.result)) =>
          /\ current_timestamp = iter_start.cursor
          /\ attempt.from_date = iter_start.cursor
          /\ new_message = attempt.msg
          /\ call.n = (IF attempt.msg # iter_start.last THEN 1 ELSE 0)
          /\ (call.n = 1 => call.message = attempt.msg)
    /\ (FetchFailed(prev.result) /\ attempt.result # "pending") =>
          attempt.from_date = prev.from_date
    /\ (IterationEnded /\ attempt.status_code = UNAUTHORIZED
            /\ iter_start.last # AuthorizationFailure) =>
          /\ current_timestamp = iter_start.cursor
          /\ call.n = 1
          /\ call.message = AuthorizationFailure

C5_Witness ==
    /\ pc = "sleep"
    /\ attempt.status_code = UNAUTHORIZED
    /\ call.n = 1
    /\ call.message = AuthorizationFailure
    /\ prev.result = "validator_error"
    /\ prev.from_date = attempt.from_date
    /\ current_timestamp.v = 2000

\* check_response accepted the response and its list is not empty.
NonEmptyValidated == attempt.result \in {"formatted", "formatter_error"}

\* What an iteration does with a formatted first submission.
FormattedEffects ==
    /\ attempt.result = "formatted"
    /\ new_message = parse_status(Head(homework_status.homeworks)).value
    /\ current_timestamp = homework_status.current_date
    /\ call.n = (IF new_message # iter_start.last THEN 1 ELSE 0)
    /\ (call.n = 1 => call.message = new_message)
    /\ (call.result = "sent" => last_message = new_message)

\* The messages of the scenario: hw1 under review, hw1 approved.
M1 == parse_status([homework_name |-> "hw1", status |-> "reviewing"]).value
M2 == parse_status([homework_name |-> "hw1", status |-> "approved"]).value

\* The scenario run from the start of the loop: M1 sent and cursor 1000, no
\* call and cursor 1000, M2 sent and cursor 2000.
ScenarioOutcome ==
    /\ (pc = "sleep" /\ scen = 0 /\ ScenarioStep(1)) =>
          (call.n = 1 /\ call.message = M1 /\ current_timestamp = [t |-> "int", v |-> 1000])
    /\ (pc = "sleep" /\ scen = 1 /\ ScenarioStep(2)) =>
          (call.n = 0 /\ last_message = M1 /\ current_timestamp = [t |-> "int", v |-> 1000])
    /\ (pc = "sleep" /\ scen = 2 /\ ScenarioStep(3)) =>
          (call.n = 1 /\ call.message = M2 /\ M1 # M2
           /\ current_timestamp = [t |-> "int", v |-> 2000])

\* C6 as stated: every validated response with a non-empty list has its first
\* submission formatted into the candidate, advances the cursor to its
\* current_date, is sent exactly when the candidate differs from last_message,
\* and a delivery sets last_message; the scenario gives M1, nothing, M2.
C6_NonEmptyFormatsAndAdvances ==
    /\ (IterationEnded /\ NonEmptyValidated) => FormattedEffects
    /\ ScenarioOutcome

\* C6 amended: the same, for a validated response with a non-empty list whose
\* first submission has a name and one of the three recognised statuses.
C6_FormattableFormatsAndAdvances ==
    /\ (IterationEnded /\ NonEmptyValidated
            /\ parse_status(Head(homework_status.homeworks)).ok) => FormattedEffects
    /\ ScenarioOutcome

C6_Witness ==
    /\ pc = "sleep"
    /\ scen = 2
    /\ ScenarioStep(3)
    /\ call.n = 1
    /\ call.message = M2
    /\ last_message = M2

\* C7: once the loop has started the process does not exit, whatever the API
\* client, the validator, the formatter and the delivery call do: an iteration
\* that has passed its finally clause is at the sleep.
C7_NoErrorTerminates ==
    api_called => (exit_status = <<>> /\ (IterationEnded => pc = "sleep"))

\* A credential is absent: unset, or set to the empty string.
Absent(v) == v \in {NoneVal, ""}

AnyCredentialAbsent ==
    Absent(PRACTICUM_TOKEN) \/ Absent(TELEGRAM_TOKEN) \/ Absent(TELEGRAM_CHAT_ID)

\* C8: with a credential absent at startup main() never enters the loop: no
\* request to the API and no call of the Notifier is made.
C8_MissingCredentialNoCalls ==
    AnyCredentialAbsent =>
        (pc \in {"start", "exited"} /\ ~api_called /\ ~notifier_called)

C8_Witness ==
    /\ pc = "exited"
    /\ Absent(TELEGRAM_CHAT_ID)
    /\ ~Absent(PRACTICUM_TOKEN)
    /\ ~Absent(TELEGRAM_TOKEN)
    /\ ~api_called

\* C9: with configuration missing the process ends with a non-zero exit status
\* after one critical log line per missing variable, and the process exits by
\* itself for no other reason.
\* The critical log names exactly the absent variables.
CriticalLogComplete ==
    pc = "exited" =>
        critical_log =
            {n \in {"PRACTICUM_TOKEN", "TELEGRAM_TOKEN", "TELEGRAM_CHAT_ID"} :
                \/ (n = "PRACTICUM_TOKEN" /\ Absent(PRACTICUM_TOKEN))
                \/ (n = "TELEGRAM_TOKEN" /\ Absent(TELEGRAM_TOKEN))
                \/ (n = "TELEGRAM_CHAT_ID" /\ Absent(TELEGRAM_CHAT_ID))}

C9_MissingConfigExitsNonZero ==
    /\ pc = "exited" => (exit_status # <<>> /\ exit_status[1] # 0)
    /\ CriticalLogComplete
    /\ exit_status # <<>> => AnyCredentialAbsent

\* The cursor this iteration's try statement calls for.
CursorCalledFor ==
    IF attempt.result \in {"formatted", "empty"}
        THEN homework_status.current_date
        ELSE iter_start.cursor

\* C10: when send_message reports a failed delivery the iteration still is at
\* the sleep with the cursor its response called for; compared with a
\* delivery, only last_message differs: it keeps its value.
C10_DeliveryFailureNonBlocking ==
    /\ call.result = "TelegramError" =>
          /\ pc = "sleep"
          /\ current_timestamp = CursorCalledFor
          /\ new_message = call.message
          /\ last_message = iter_start.last
    /\ call.result = "sent" =>
          /\ pc = "sleep"
          /\ current_timestamp = CursorCalledFor
          /\ new_message = call.message
          /\ last_message = call.message

C10_Witness ==
    /\ call.result = "TelegramError"
    /\ pc = "sleep"
    /\ attempt.result = "formatted"
    /\ current_timestamp # iter_start.cursor
    /\ last_message # new_message


\* The status of hw1 is back to reviewing after reviewing and approved were
\* each delivered.
FlappedBack ==
    /\ IterationEnded
    /\ flap = 2
    /\ attempt.result = "formatted"
    /\ new_message = StatusMessage("reviewing")

\* C11 as stated: a status that flaps back to a value seen before (reviewing,
\* approved, reviewing, each delivered) is a repeat: no further Notifier call.
C11_FlapBackSuppressed == FlappedBack => call.n = 0

\* C11 amended: deduplication compares the candidate with the last delivered
\* message only, so the candidate for a status that flaps back to a value seen
\* before the last delivery is a new one: it is passed to the Notifier again.
C11_FlapBackNotifiedAgain ==
    FlappedBack =>
        /\ iter_start.last = StatusMessage("approved")
        /\ call.n = 1
        /\ call.message = StatusMessage("reviewing")
        /\ (call.result = "sent" => last_message = StatusMessage("reviewing"))

C11_Witness ==
    /\ FlappedBack
    /\ pc = "sleep"
    /\ call.n = 1
    /\ call.result = "sent"
    /\ last_message = StatusMessage("reviewing")


\* check_response has accepted the payload of this iteration.
ValidatorAccepted ==
    \/ pc \in {"format", "advance"}
    \/ attempt.result \in {"formatted", "empty", "formatter_error"}

\* C12: check_response rejects every payload that is no mapping, lacks
\* 'homeworks' or has no list under it, lacks 'current_date' or has no integer
\* under it, and accepts every other payload, the empty list included.
C12_ValidatorRejectsIllShaped ==
    /\ ValidatorAccepted => ValidatedResponse(homework_status)
    /\ attempt.result = "validator_error" => ~ValidatedResponse(homework_status)


\* The result the design of the API client gives each outcome: the class
\* raised, or "" for a returned payload.  Outcomes it does not name (such as
\* too many redirects) are any one error.
ClassifiedAs(a) ==
    IF a.kind = "ConnectionError" THEN {"ConnectionError"}
    ELSE IF a.kind \in {"ConnectTimeout", "ReadTimeout"} THEN {"APITimeoutError"}
    ELSE IF a.kind # "response"
        THEN {"APIRequestError", "ConnectionError", "APITimeoutError"}
    ELSE IF a.status_code = 401 THEN {"APIUnauthorized"}
    ELSE IF a.status_code = 400 THEN {"APIIncorrectParametersError"}
    ELSE IF a.status_code < 200 \/ a.status_code >= 300 THEN {"APIRequestError"}
    ELSE IF a.decode # "json" THEN {"APIRequestError"}
    ELSE {""}

\* C13: get_api_answer gives every outcome its one result: 401 Unauthorized,
\* 400 InvalidParameters, another non-2xx status RequestFailed, a refused or
\* reset connection ConnectionFailed, a connect or read timeout TimedOut, a 2xx
\* with a malformed body RequestFailed, a 2xx with JSON the payload; and it
\* sends one request.
C13_ClientClassifies ==
    attempt.kind # "" =>
        /\ attempt.requests = 1
        /\ (IF attempt.result = "api_error" THEN attempt.exc ELSE "")
              \in ClassifiedAs(attempt)


\* The three statuses the formatter recognises.
RecognisedStatuses == {"approved", "reviewing", "rejected"}

\* The submission parse_status was called with in this iteration.
Formatted == Head(homeworks)

\* C14: parse_status fails with a missing-field error (KeyError) for a
\* submission without name or status, with an unknown-status error (ValueError)
\* for one whose status is none of the three, and returns a message otherwise;
\* the messages of one name for the three statuses differ from one another.
C14_FormatterContract ==
    NonEmptyValidated =>
        IF Formatted.homework_name = NoneVal \/ Formatted.status = NoneVal
            THEN attempt.result = "formatter_error" /\ attempt.exc = "KeyError"
        ELSE IF Formatted.status \notin RecognisedStatuses
            THEN attempt.result = "formatter_error" /\ attempt.exc = "ValueError"
        ELSE /\ attempt.result = "formatted"
             /\ new_message # NoneVal
             /\ \A other \in RecognisedStatuses \ {Formatted.status} :
                   parse_status([Formatted EXCEPT !.status = other]).value
                       # new_message

C14_Witness ==
    /\ pc = "sleep"
    /\ attempt.result = "formatted"
    /\ Formatted.status = "rejected"
    /\ prev.result = "formatter_error"


\* C15: the cursor changes in an iteration exactly when the whole try block
\* completes (request, validation and, for a non-empty list, formatting of the
\* first submission); it is then the response's current_date, for an empty
\* list too.  A formatter failure leaves the cursor alone and its text is the
\* candidate.
C15_CursorFollowsTry ==
    IterationEnded =>
        /\ current_timestamp = CursorCalledFor
        /\ attempt.result = "formatter_error" =>
              /\ current_timestamp = iter_start.cursor
              /\ new_message = attempt.msg
              /\ attempt.exc \in {"KeyError", "ValueError"}
        /\ attempt.result = "empty" =>
              current_timestamp = homework_status.current_date

C15_Witness ==
    /\ pc = "sleep"
    /\ attempt.result = "formatter_error"
    /\ ValidatedResponse(homework_status)
    /\ homework_status.current_date # current_timestamp
    /\ new_message = attempt.msg
    /\ prev.result = "empty"
    /\ current_timestamp # StartTimestamp


\* The previous iteration ended with its candidate not delivered:
\* new_message != last_message.
PrevUndelivered == prev.cand # iter_start.last

C17_LastIsLastDelivered ==
    /\ last_message = last_delivered
    /\ last_message # iter_start.last =>
          (call.n = 1 /\ call.result = "sent" /\ last_message = call.message)
    /\ call.n >= 1 => call.message # NoneVal

C17_Witness ==
    /\ pc = "sleep"
    /\ call.n = 1
    /\ call.result = "TelegramError"
    /\ last_message # NoneVal
    /\ last_message = last_delivered
    /\ last_message # call.message


\* The events an iteration can consist of: one call of get_api_answer, the
\* cursor assignment if there is one, the send_message call if there is one,
\* one time.sleep.
IterationOrders ==
    {<<"api", "sleep">>, <<"api", "cursor", "sleep">>,
     <<"api", "notify", "sleep">>, <<"api", "cursor", "notify", "sleep">>}

\* An iteration of the loop has run to its end: the next one is about to
\* fetch, or the process ended inside it.
IterationOver == pc = "crashed" \/ (pc = "fetch" /\ events # <<>>)

\* The request of the iteration under way carried the cursor the previous
\* iteration ended with.
FetchUsesHeldCursor == attempt.requests = 1 => attempt.from_date = iter_start.cursor

\* C18: every iteration is one API call, then at most one send_message call,
\* then one sleep of RETRY_TIME, in that order, its cursor assignment coming
\* before its send_message call; and the next fetch uses the cursor the
\* previous iteration ended with.
C18_IterationOrder ==
    /\ IterationOver => (events \in IterationOrders /\ slept = RETRY_TIME)
    /\ FetchUsesHeldCursor

====
